---- MODULE Spec2Model ----
(***************************************************************************)
(* redisstringset: a mutex-guarded string set stored under a Redis key.    *)
(* The model follows src/set.go: every public method of Set is a frame on  *)
(* the calling goroutine's stack, taking the handle's sync.Mutex on entry  *)
(* and releasing it (defer) on return.  Strings are sequences of           *)
(* characters, the store maps each key to its set of members.              *)
(***************************************************************************)
EXTENDS Integers, Sequences, FiniteSets, TLC

(* ---- bounds of the model ---- *)
NLetters == 2
MaxBatch == 2

(* ---- characters and strings ---- *)
LowerLetters == <<"a", "b", "c", "d">>
UpperLetters == <<"A", "B", "C", "D">>

Letters == 1..NLetters

\* strings.ToLower on one character (unicode.ToLower restricted to the alphabet)
LowerChar(c) ==
  IF \E i \in DOMAIN UpperLetters : UpperLetters[i] = c
  THEN LowerLetters[CHOOSE i \in DOMAIN UpperLetters : UpperLetters[i] = c]
  ELSE c

\* strings.ToLower
ToLower(str) == [i \in DOMAIN str |-> LowerChar(str[i])]

IsSpace(c) == c = " "

RECURSIVE TrimLeft(_)
TrimLeft(str) ==
  IF str # <<>> /\ IsSpace(Head(str)) THEN TrimLeft(Tail(str)) ELSE str

RECURSIVE TrimRight(_)
TrimRight(str) ==
  IF str # <<>> /\ IsSpace(str[Len(str)])
  THEN TrimRight(SubSeq(str, 1, Len(str) - 1))
  ELSE str

\* strings.TrimSpace
TrimSpace(str) == TrimRight(TrimLeft(str))

\* strings.Split(str, sep) for a one-character separator: always at least one piece
RECURSIVE SplitFrom(_, _, _)
SplitFrom(str, sep, piece) ==
  IF str = <<>> THEN <<piece>>
  ELSE IF Head(str) = sep THEN <<piece>> \o SplitFrom(Tail(str), sep, <<>>)
  ELSE SplitFrom(Tail(str), sep, Append(piece, Head(str)))

Split(str, sep) == SplitFrom(str, sep, <<>>)

\* strings.Join(items, sep)
RECURSIVE Join(_, _)
Join(items, sep) ==
  IF items = <<>> THEN <<>>
  ELSE IF Len(items) = 1 THEN items[1]
  ELSE items[1] \o <<sep>> \o Join(Tail(items), sep)

(* ---- inputs of the callers ---- *)
\* element arguments: every letter in both casings
Elems == {<<LowerLetters[i]>> : i \in Letters} \cup {<<UpperLetters[i]>> : i \in Letters}

\* variadic argument lists of InsertMany
Batches == UNION {[1..n -> Elems] : n \in 0..MaxBatch}

\* arguments of Set(input)
Inputs == { <<>>, <<"a">>, <<"a", ",", " ", "B">> }

\* the inputs of two goroutines running together: one letter in both casings
FewElems == {<<LowerLetters[1]>>, <<UpperLetters[1]>>}
FewBatches == { <<>>, << <<UpperLetters[1]>> >>, << <<UpperLetters[1]>>, <<LowerLetters[1]>> >> }
FewInputs == { <<>>, <<"a">> }

\* argument lists of Deduplicate
DedupInputs == Batches \cup { << <<"a">>, <<"A">>, <<" ", "a", " ">>, <<"b">> >> }

Threads == {"t1", "t2"}
Handles == {"A", "B"}

\* the handles Deduplicate makes with New, one for each key it may be given
NewHandles == {"NA", "NB"}

\* Set.key of each handle (New binds one key per handle)
Key(h) == IF h \in {"A", "NA"} THEN "kA" ELSE "kB"
Keys == {Key(h) : h \in Handles}

ElementFns == {"Has", "Insert", "Remove"}
OtherFns == {"Union", "Subtract", "Intersect"}
PlainFns == {"Close", "Slice", "Len", "String"}
PrimFns == {"Close", "Has", "Insert", "Remove", "Slice", "Len"}

VARIABLES
  store,     \* Redis: key -> set of members (an absent key is the empty set)
  mu,        \* handle -> whether its sync.Mutex is locked
  stack,     \* goroutine -> its stack of method frames, innermost last
  inserted,  \* key -> the lower-cased strings whose last write was an Insert
  removed,   \* key -> the lower-cased strings inserted and then removed, not inserted since
  phase      \* key -> "closed" after a Close, "one" after one Insert since, else "open"

vars == <<store, mu, stack, inserted, removed, phase>>

NoRet == [b |-> FALSE, l |-> <<>>, n |-> 0, str |-> <<>>, e |-> FALSE]

\* a fresh activation of method fn on handle s
Frame(fn, s, element, elements, other) ==
  [fn |-> fn, s |-> s, pc |-> "lock", element |-> element, elements |-> elements,
   other |-> other, i |-> 1, err |-> FALSE, failed |-> FALSE, cmds |-> 0,
   sent |-> <<>>, snap |-> [k \in Keys |-> {}], rv |-> NoRet, ret |-> NoRet]

Top(t) == stack[t][Len(stack[t])]

Init ==
  /\ store = [k \in Keys |-> {}]
  /\ mu = [h \in Handles \cup NewHandles |-> FALSE]
  /\ stack = [t \in Threads |-> <<>>]
  /\ inserted = [k \in Keys |-> {}]
  /\ removed = [k \in Keys |-> {}]
  /\ phase = [k \in Keys |-> "open"]

(* ---- the store's commands, as go-redis issues them ---- *)
Del(st, k) == [st EXCEPT ![k] = {}]
SIsMember(st, k, v) == v \in st[k]
SAdd(st, k, v) == [st EXCEPT ![k] = @ \cup {v}]
SRem(st, k, v) == [st EXCEPT ![k] = @ \ {v}]
SCard(st, k) == Cardinality(st[k])
\* the members in any order the store may return them
SMembers(st, k) ==
  {o \in [1..Cardinality(st[k]) -> st[k]] : \A i, j \in DOMAIN o : o[i] = o[j] => i = j}

(* ---- sync.Mutex ---- *)
\* a Lock that never waits
MayLockAlways(h) == mu[h] \in BOOLEAN

\* s.Lock() returns only when the mutex is unlocked, whoever locked it
MayLock(h) == ~mu[h]

(* ---- methods issuing one command: the frame and the store after the command; *)
(* ok is whether the command succeeded, order the reply of SMEMBERS; a       *)
(* command that fails leaves the store as it was ---- *)
\* Close that deletes nothing
CloseKeep(f, st, ok) ==
  [st |-> st, f |-> [f EXCEPT !.pc = "unlock", !.err = ~ok]]

Close(f, st, ok) ==
  [st |-> IF ok THEN Del(st, Key(f.s)) ELSE st,
   f  |-> [f EXCEPT !.pc = "unlock", !.err = ~ok]]

\* Has asking for the element as the caller wrote it
HasExact(f, st, ok) ==
  [st |-> st,
   f  |-> [f EXCEPT !.pc = "unlock", !.err = ~ok, !.sent = f.element,
                    !.ret.b = IF ok THEN SIsMember(st, Key(f.s), f.element) ELSE FALSE]]

\* Has answering true when the command fails
HasFailOpen(f, st, ok) ==
  [st |-> st,
   f  |-> [f EXCEPT !.pc = "unlock", !.err = ~ok, !.sent = ToLower(f.element),
                    !.ret.b = IF ok THEN SIsMember(st, Key(f.s), ToLower(f.element))
                              ELSE TRUE]]

Has(f, st, ok) ==
  [st |-> st,
   f  |-> [f EXCEPT !.pc = "unlock", !.err = ~ok, !.sent = ToLower(f.element),
                    !.ret.b = IF ok THEN SIsMember(st, Key(f.s), ToLower(f.element))
                              ELSE FALSE]]

\* Insert adding the element as the caller wrote it
InsertExact(f, st, ok) ==
  [st |-> IF ok THEN SAdd(st, Key(f.s), f.element) ELSE st,
   f  |-> [f EXCEPT !.pc = "unlock", !.err = ~ok, !.sent = f.element]]

\* Insert issuing its command again when it fails
InsertRetry(f, st, ok) ==
  [st |-> IF ok THEN SAdd(st, Key(f.s), ToLower(f.element)) ELSE st,
   f  |-> [f EXCEPT !.pc = IF ok THEN "unlock" ELSE "body", !.err = ~ok,
                    !.sent = ToLower(f.element)]]

Insert(f, st, ok) ==
  [st |-> IF ok THEN SAdd(st, Key(f.s), ToLower(f.element)) ELSE st,
   f  |-> [f EXCEPT !.pc = "unlock", !.err = ~ok, !.sent = ToLower(f.element)]]

\* Remove removing the element as the caller wrote it
RemoveExact(f, st, ok) ==
  [st |-> IF ok THEN SRem(st, Key(f.s), f.element) ELSE st,
   f  |-> [f EXCEPT !.pc = "unlock", !.err = ~ok, !.sent = f.element]]

Remove(f, st, ok) ==
  [st |-> IF ok THEN SRem(st, Key(f.s), ToLower(f.element)) ELSE st,
   f  |-> [f EXCEPT !.pc = "unlock", !.err = ~ok, !.sent = ToLower(f.element)]]

Slice(f, st, ok, order) ==
  [st |-> st,
   f  |-> [f EXCEPT !.pc = "unlock", !.err = ~ok,
                    !.ret.l = IF ok THEN order ELSE <<>>]]

Length(f, st, ok) ==
  [st |-> st,
   f  |-> [f EXCEPT !.pc = "unlock", !.err = ~ok,
                    !.ret.n = IF ok THEN SCard(st, Key(f.s)) ELSE 0]]

(* ---- methods composed of calls: the frames that replace the frame f, the  *)
(* callee's frame last; f.rv is what the last callee returned ---- *)
InsertMany(f) ==
  IF f.i <= Len(f.elements)
  THEN << [f EXCEPT !.pc = "loop", !.i = f.i + 1],
          Frame("Insert", f.s, f.elements[f.i], <<>>, f.s) >>
  ELSE << [f EXCEPT !.pc = "unlock"] >>

UnionLoop(f) ==
  IF f.i <= Len(f.elements)
  THEN << [f EXCEPT !.pc = "loop", !.i = f.i + 1],
          Frame("Insert", f.s, f.elements[f.i], <<>>, f.s) >>
  ELSE << [f EXCEPT !.pc = "unlock"] >>

Union(f) ==
  CASE f.pc = "body"  -> << [f EXCEPT !.pc = "range"],
                            Frame("Slice", f.other, <<>>, <<>>, f.other) >>
    [] f.pc = "range" -> UnionLoop([f EXCEPT !.elements = f.rv.l, !.i = 1])
    [] OTHER          -> UnionLoop(f)

SubtractLoop(f) ==
  IF f.i <= Len(f.elements)
  THEN << [f EXCEPT !.pc = "loop", !.i = f.i + 1],
          Frame("Remove", f.s, f.elements[f.i], <<>>, f.s) >>
  ELSE << [f EXCEPT !.pc = "unlock"] >>

Subtract(f) ==
  CASE f.pc = "body"  -> << [f EXCEPT !.pc = "range"],
                            Frame("Slice", f.other, <<>>, <<>>, f.other) >>
    [] f.pc = "range" -> SubtractLoop([f EXCEPT !.elements = f.rv.l, !.i = 1])
    [] OTHER          -> SubtractLoop(f)

IntersectLoop(f) ==
  IF f.i <= Len(f.elements)
  THEN << [f EXCEPT !.pc = "test"],
          Frame("Has", f.other, f.elements[f.i], <<>>, f.other) >>
  ELSE << [f EXCEPT !.pc = "unlock"] >>

Intersect(f) ==
  CASE f.pc = "body"  -> << [f EXCEPT !.pc = "range"],
                            Frame("Slice", f.s, <<>>, <<>>, f.s) >>
    [] f.pc = "range" -> IntersectLoop([f EXCEPT !.elements = f.rv.l, !.i = 1])
    [] f.pc = "test"  -> IF ~f.rv.b
                         THEN << [f EXCEPT !.pc = "loop", !.i = f.i + 1],
                                 Frame("Remove", f.s, f.elements[f.i], <<>>, f.s) >>
                         ELSE IntersectLoop([f EXCEPT !.i = f.i + 1])
    [] OTHER          -> IntersectLoop(f)

String(f) ==
  CASE f.pc = "body" -> << [f EXCEPT !.pc = "join"],
                           Frame("Slice", f.s, <<>>, <<>>, f.s) >>
    [] OTHER         -> << [f EXCEPT !.pc = "unlock", !.ret.str = Join(f.rv.l, ",")] >>

SetLoop(f) ==
  IF f.i <= Len(f.elements)
  THEN << [f EXCEPT !.pc = "loop", !.i = f.i + 1],
          Frame("Insert", f.s, TrimSpace(f.elements[f.i]), <<>>, f.s) >>
  ELSE << [f EXCEPT !.pc = "unlock"] >>

\* Set accepting the empty input
SetNoError(f) ==
  CASE f.pc = "body" -> IF f.element = <<>>
                        THEN << [f EXCEPT !.pc = "unlock"] >>
                        ELSE SetLoop([f EXCEPT !.elements = Split(f.element, ","), !.i = 1])
    [] OTHER         -> SetLoop(f)

Set(f) ==
  CASE f.pc = "body" -> IF f.element = <<>>
                        THEN << [f EXCEPT !.pc = "unlock", !.ret.e = TRUE] >>
                        ELSE SetLoop([f EXCEPT !.elements = Split(f.element, ","), !.i = 1])
    [] OTHER         -> SetLoop(f)

\* New: a handle s over the key, seeded with InsertMany when initial is not empty
New(f) ==
  IF Len(f.elements) > 0
  THEN << [f EXCEPT !.pc = "made"], Frame("InsertMany", f.s, <<>>, f.elements, f.s) >>
  ELSE << [f EXCEPT !.pc = "made"] >>

\* Deduplicate: New, then the result of ss.Slice(), then the deferred ss.Close()
Deduplicate(f) ==
  CASE f.pc = "body"   -> New(f)
    [] f.pc = "made"   -> << [f EXCEPT !.pc = "sliced"],
                             Frame("Slice", f.s, <<>>, <<>>, f.s) >>
    [] f.pc = "sliced" -> << [f EXCEPT !.pc = "closed", !.ret.l = f.rv.l],
                             Frame("Close", f.s, <<>>, <<>>, f.s) >>
    [] OTHER           -> << [f EXCEPT !.pc = "return"] >>

\* the command a one-command method issues
Command(f, st, ok, order) ==
  CASE f.fn = "Close"  -> Close(f, st, ok)
    [] f.fn = "Has"    -> Has(f, st, ok)
    [] f.fn = "Insert" -> Insert(f, st, ok)
    [] f.fn = "Remove" -> Remove(f, st, ok)
    [] f.fn = "Slice"  -> Slice(f, st, ok, order)
    [] OTHER           -> Length(f, st, ok)

\* the next statement of a composed method
Statement(f) ==
  CASE f.fn = "InsertMany" -> InsertMany(f)
    [] f.fn = "Union"      -> Union(f)
    [] f.fn = "Subtract"   -> Subtract(f)
    [] f.fn = "Intersect"  -> Intersect(f)
    [] f.fn = "String"     -> String(f)
    [] f.fn = "Set"        -> Set(f)
    [] OTHER               -> Deduplicate(f)

\* the strings a caller has inserted under a key and not removed, after the command of f
Inserted(f, ok, ins) ==
  IF ~ok THEN ins
  ELSE CASE f.fn = "Insert" -> ins \cup {ToLower(f.element)}
         [] f.fn = "Remove" -> ins \ {ToLower(f.element)}
         [] f.fn = "Close"  -> {}
         [] OTHER           -> ins

\* the strings a caller has inserted and then removed, after the command of f
Removed(f, ok, ins, rem) ==
  IF ~ok THEN rem
  ELSE CASE f.fn = "Insert" -> rem \ {ToLower(f.element)}
         [] f.fn = "Remove" -> IF ToLower(f.element) \in ins
                               THEN rem \cup {ToLower(f.element)} ELSE rem
         [] f.fn = "Close"  -> {}
         [] OTHER           -> rem

\* whether a key was just closed, after the command of f
Phase(f, ok, ph) ==
  IF ~ok THEN ph
  ELSE CASE f.fn = "Close"  -> "closed"
         [] f.fn = "Insert" -> IF ph = "closed" THEN "one" ELSE "open"
         [] f.fn = "Remove" -> "open"
         [] OTHER           -> ph

\* what an outermost call finds under the keys it works on when it gets its lock
Snapshot(f, st) ==
  [k \in Keys |-> IF k = Key(f.s) \/ (f.fn \in OtherFns /\ k = Key(f.other))
                  THEN st[k] ELSE {}]

(* ---- the steps of a goroutine ---- *)
Push(t, f) == stack' = [stack EXCEPT ![t] = Append(@, f)]

\* a goroutine with no call in progress calls a public method of a handle
Call(t, elems, batches, inputs) ==
  /\ stack[t] = <<>>
  /\ \E h \in Handles :
       \/ \E fn \in ElementFns, e \in elems : Push(t, Frame(fn, h, e, <<>>, h))
       \/ \E fn \in PlainFns : Push(t, Frame(fn, h, <<>>, <<>>, h))
       \/ \E b \in batches : Push(t, Frame("InsertMany", h, <<>>, b, h))
       \/ \E fn \in OtherFns, o \in Handles \ {h} : Push(t, Frame(fn, h, <<>>, <<>>, o))
       \/ \E input \in inputs : Push(t, Frame("Set", h, input, <<>>, h))
  /\ UNCHANGED <<store, mu, inserted, removed, phase>>

\* a goroutine with no call in progress calls Deduplicate(redisClient, key, input)
CallDeduplicate(t) ==
  /\ stack[t] = <<>>
  /\ \E h \in NewHandles, input \in DedupInputs :
       LET f == Frame("Deduplicate", h, <<>>, input, h)
       IN Push(t, [f EXCEPT !.pc = "body", !.snap = Snapshot(f, store)])
  /\ UNCHANGED <<store, mu, inserted, removed, phase>>

\* s.Lock() at the top of every method
Lock(t) ==
  /\ stack[t] # <<>>
  /\ Top(t).pc = "lock"
  /\ MayLock(Top(t).s)
  /\ mu' = [mu EXCEPT ![Top(t).s] = TRUE]
  /\ stack' = [stack EXCEPT ![t][Len(stack[t])] =
                 [@ EXCEPT !.pc = "body",
                           !.snap = IF Len(stack[t]) = 1 /\ Top(t).fn \notin PrimFns
                                    THEN Snapshot(Top(t), store) ELSE @]]
  /\ UNCHANGED <<store, inserted, removed, phase>>

\* the single command of Close, Has, Insert, Remove, Slice or Len
Prim(t) ==
  /\ stack[t] # <<>>
  /\ Top(t).pc = "body"
  /\ Top(t).fn \in PrimFns
  /\ \E ok \in BOOLEAN :
       LET f == Top(t)
           k == Key(f.s)
       IN \E order \in (IF f.fn = "Slice" /\ ok THEN SMembers(store, k) ELSE {<<>>}) :
            LET r == Command(f, store, ok, order) IN
              /\ store' = r.st
              /\ stack' = [stack EXCEPT ![t][Len(stack[t])] = [r.f EXCEPT !.cmds = @ + 1]]
              /\ phase' = [phase EXCEPT ![k] = Phase(f, ok, @)]
              /\ inserted' = [inserted EXCEPT ![k] = Inserted(f, ok, @)]
              /\ removed' = [removed EXCEPT ![k] = Removed(f, ok, inserted[k], @)]
  /\ UNCHANGED mu

\* the next statement of InsertMany, Union, Subtract, Intersect, String, Set or Deduplicate
Comp(t) ==
  /\ stack[t] # <<>>
  /\ Top(t).pc \notin {"lock", "unlock", "return"}
  /\ Top(t).fn \notin PrimFns
  /\ stack' = [stack EXCEPT ![t] = SubSeq(@, 1, Len(@) - 1) \o Statement(Top(t))]
  /\ UNCHANGED <<store, mu, inserted, removed, phase>>

\* defer s.Unlock() and the return to the caller; Deduplicate holds no lock
Return(t) ==
  /\ stack[t] # <<>>
  /\ Top(t).pc \in {"unlock", "return"}
  /\ mu' = IF Top(t).pc = "unlock" THEN [mu EXCEPT ![Top(t).s] = FALSE] ELSE mu
  /\ LET f == Top(t)
         rest == SubSeq(stack[t], 1, Len(stack[t]) - 1)
     IN stack' = [stack EXCEPT ![t] =
                    IF rest = <<>> THEN rest
                    ELSE [rest EXCEPT ![Len(rest)].rv = f.ret,
                                      ![Len(rest)].cmds = @ + f.cmds,
                                      ![Len(rest)].failed = @ \/ f.err \/ f.failed]]
  /\ UNCHANGED <<store, inserted, removed, phase>>

Progress(t) == Lock(t) \/ Prim(t) \/ Comp(t) \/ Return(t)

\* one goroutine calling the handles
Caller == "t1"

Next ==
  \/ Call(Caller, Elems, Batches, Inputs)
  \/ CallDeduplicate(Caller)
  \/ Progress(Caller)

Spec == Init /\ [][Next]_vars

\* two goroutines calling the handles concurrently
ConcNext == \E t \in Threads : Call(t, FewElems, FewBatches, FewInputs) \/ Progress(t)

ConcSpec == Init /\ [][ConcNext]_vars

(* ---- what the claims speak of ---- *)
\* frame f is between acquiring and releasing its handle's lock
Holding(f) == f.pc # "lock" /\ f.fn # "Deduplicate"

\* the calls between acquiring and releasing the lock of handle h
Holders(h) ==
  {c \in UNION {{<<t, i>> : i \in DOMAIN stack[t]} : t \in Threads} :
     stack[c[1]][c[2]].s = h /\ Holding(stack[c[1]][c[2]])}

\* goroutine t is in an outermost call of fn that has acquired its lock
Running(t, fn) == stack[t] # <<>> /\ stack[t][1].fn = fn /\ Holding(stack[t][1])

\* goroutine t's innermost call is fn and has its result
Returning(t, fn) == stack[t] # <<>> /\ Top(t).fn = fn /\ Top(t).pc = "unlock"

\* the lower-cased forms of a list of elements
LowerSet(elements) == {ToLower(elements[i]) : i \in DOMAIN elements}

(* C1: a composite call never self-deadlocks: no call waits for the lock of  *)
(* a handle while a call beneath it on the same goroutine's stack holds     *)
(* that same lock (the per-element step never re-acquires s's lock).        *)
C1_NoSelfDeadlock ==
  \A t \in Threads : \A i, j \in DOMAIN stack[t] :
    (i < j /\ stack[t][j].pc = "lock" /\ stack[t][i].s = stack[t][j].s)
      => ~Holding(stack[t][i])

(* C2: mutual exclusion per handle: at most one call on a handle is between *)
(* acquiring and releasing the handle's lock, and the lock is locked        *)
(* exactly while there is one.                                              *)
C2_MutualExclusion ==
  \A h \in Handles :
    /\ Cardinality(Holders(h)) <= 1
    /\ mu[h] <=> Holders(h) # {}

\* one goroutine is about to issue its command on a handle while another waits for the lock
C2_Witness ==
  \E t, u \in Threads : \E h \in Handles :
    /\ t # u /\ stack[t] # <<>> /\ stack[u] # <<>>
    /\ Top(t).s = h /\ Top(t).pc = "body" /\ Top(t).fn \in PrimFns
    /\ Top(u).s = h /\ Top(u).pc = "lock"

(* C3: Has(e') returns true, whatever the casing of e', when an Insert of a *)
(* re-casing of e' was the last write to that string and no command failed. *)
C3_InsertThenHas ==
  \A t \in Threads :
    (Returning(t, "Has") /\ ~Top(t).err
       /\ ToLower(Top(t).element) \in inserted[Key(Top(t).s)])
      => Top(t).ret.b

\* Has of an upper-case spelling answers true after an Insert
C3_Witness ==
  \E t \in Threads :
    /\ Returning(t, "Has") /\ ~Top(t).err
    /\ Top(t).element # ToLower(Top(t).element)
    /\ ToLower(Top(t).element) \in inserted[Key(Top(t).s)]
    /\ Top(t).ret.b

(* C4: after Insert(e); Remove(e), in any casings, Has(e) returns false,    *)
(* whatever else the set contains.                                          *)
C4_InsertRemoveThenHas ==
  \A t \in Threads :
    (Returning(t, "Has") /\ ~Top(t).err
       /\ ToLower(Top(t).element) \in removed[Key(Top(t).s)])
      => ~Top(t).ret.b

\* Has of an upper-case spelling answers false after Insert and Remove, the set not empty
C4_Witness ==
  \E t \in Threads :
    /\ Returning(t, "Has") /\ ~Top(t).err
    /\ Top(t).element # ToLower(Top(t).element)
    /\ ToLower(Top(t).element) \in removed[Key(Top(t).s)]
    /\ store[Key(Top(t).s)] # {}
    /\ ~Top(t).ret.b

(* C5: Len() is the number of distinct lower-cased strings inserted and not *)
(* removed since; it is never negative.                                     *)
C5_LenCounts ==
  \A t \in Threads :
    (Returning(t, "Len") /\ ~Top(t).err)
      => /\ Top(t).ret.n = Cardinality(inserted[Key(Top(t).s)])
         /\ Top(t).ret.n >= 0

\* Len answers 1 with one string inserted and another inserted and removed
C5_Witness ==
  \E t \in Threads :
    /\ Returning(t, "Len") /\ ~Top(t).err
    /\ Top(t).ret.n = 1
    /\ removed[Key(Top(t).s)] # {}

(* C6: InsertMany(es...) over an empty key completes (it can always take    *)
(* its next step), and when it returns the members of the key, which a      *)
(* following Slice() lists, are exactly the lower-cased forms of es.        *)
C6_InsertManyThenSlice ==
  \A t \in Threads :
    (Running(t, "InsertMany") /\ stack[t][1].snap[Key(stack[t][1].s)] = {})
      => /\ ENABLED Progress(t)
         /\ (stack[t][1].pc = "unlock" /\ ~stack[t][1].failed)
              => store[Key(stack[t][1].s)] = LowerSet(stack[t][1].elements)

C8_Union ==
  \A t \in Threads :
    Running(t, "Union")
      => LET f == stack[t][1] IN
         /\ ENABLED Progress(t)
         /\ (f.pc = "unlock" /\ ~f.failed)
              => /\ store[Key(f.s)] = f.snap[Key(f.s)] \cup f.snap[Key(f.other)]
                 /\ store[Key(f.other)] = f.snap[Key(f.other)]

(* C9: A.Subtract(B) completes, and when it returns A holds exactly what it *)
(* held when the call started less what B held, and B is unchanged.         *)
C9_Subtract ==
  \A t \in Threads :
    Running(t, "Subtract")
      => LET f == stack[t][1] IN
         /\ ENABLED Progress(t)
         /\ (f.pc = "unlock" /\ ~f.failed)
              => /\ store[Key(f.s)] = f.snap[Key(f.s)] \ f.snap[Key(f.other)]
                 /\ store[Key(f.other)] = f.snap[Key(f.other)]

(* C10: A.Intersect(B) completes, and when it returns A holds exactly what  *)
(* both A and B held when the call started, and B is unchanged.             *)
C10_Intersect ==
  \A t \in Threads :
    Running(t, "Intersect")
      => LET f == stack[t][1] IN
         /\ ENABLED Progress(t)
         /\ (f.pc = "unlock" /\ ~f.failed)
              => /\ store[Key(f.s)] = f.snap[Key(f.s)] \cap f.snap[Key(f.other)]
                 /\ store[Key(f.other)] = f.snap[Key(f.other)]

\* the elements of a sequence
Range(seq) == {seq[i] : i \in DOMAIN seq}

\* goroutine t's innermost call takes the step that issues its command
Commands(t) ==
  /\ stack[t] # <<>> /\ Top(t).pc = "body" /\ Top(t).fn \in PrimFns
  /\ Len(stack'[t]) = Len(stack[t]) /\ stack'[t] # stack[t]

\* goroutine t's innermost call takes the step that returns
Returns(t) ==
  /\ stack[t] # <<>> /\ Top(t).pc \in {"unlock", "return"}
  /\ Len(stack'[t]) = Len(stack[t]) - 1

\* no upper-case letter in str
IsLower(str) == \A i \in DOMAIN str : \A j \in DOMAIN UpperLetters : str[i] # UpperLetters[j]

\* low is str with every upper-case letter replaced by its lower-case letter
LowerFormOf(low, str) ==
  /\ Len(low) = Len(str)
  /\ IsLower(low)
  /\ \A i \in DOMAIN str :
       \/ low[i] = str[i]
       \/ \E j \in DOMAIN UpperLetters : str[i] = UpperLetters[j] /\ low[i] = LowerLetters[j]

(* C11: Deduplicate(conn, key, input) returns for every input (it can      *)
(* always take its next step); over an empty key its result is, as a set,   *)
(* the distinct trimmed and lower-cased inputs, and the key is gone.        *)
C11_Deduplicate ==
  \A t \in Threads :
    (stack[t] # <<>> /\ stack[t][1].fn = "Deduplicate")
      => LET f == stack[t][1] IN
         /\ ENABLED Progress(t)
         /\ (f.pc = "return" /\ ~f.failed /\ f.snap[Key(f.s)] = {})
              => /\ Range(f.ret.l) = {ToLower(TrimSpace(e)) : e \in Range(f.elements)}
                 /\ store[Key(f.s)] = {}

(* C12: Set("") returns a parse error, has issued no command, leaves the    *)
(* members of the key as they were and leaves the handle's lock unlocked.   *)
C12_SetEmpty ==
  [][\A t \in Threads :
       (Returns(t) /\ Top(t).fn = "Set" /\ Top(t).element = <<>> /\ Len(stack[t]) = 1)
         => /\ Top(t).ret.e
            /\ Top(t).cmds = 0
            /\ store'[Key(Top(t).s)] = Top(t).snap[Key(Top(t).s)]
            /\ ~mu'[Top(t).s]]_vars

\* Set("") is about to return its error over a key that has members
C12_Witness ==
  \E t \in Threads :
    /\ Returning(t, "Set") /\ Top(t).element = <<>> /\ Len(stack[t]) = 1
    /\ Top(t).ret.e /\ Top(t).cmds = 0
    /\ store[Key(Top(t).s)] # {}

(* C13: Set(input) with a non-empty input completes, returns no error, and  *)
(* leaves under the key its prior members and the trimmed, lower-cased      *)
(* comma-separated pieces of input.                                         *)
C13_SetAccumulates ==
  \A t \in Threads :
    (Running(t, "Set") /\ stack[t][1].element # <<>>)
      => LET f == stack[t][1] IN
         /\ ENABLED Progress(t)
         /\ (f.pc = "unlock" /\ ~f.failed)
              => /\ ~f.ret.e
                 /\ store[Key(f.s)] =
                      f.snap[Key(f.s)] \cup
                        {ToLower(TrimSpace(piece)) : piece \in Range(Split(f.element, ","))}

(* C14: String() on a handle whose lock is free returns, its result is the  *)
(* members of the key joined by commas in an order the store returns them,  *)
(* and the members are unchanged.                                           *)
C14_String ==
  \A t \in Threads :
    Running(t, "String")
      => LET f == stack[t][1] IN
         /\ ENABLED Progress(t)
         /\ (f.pc = "unlock" /\ ~f.failed)
              => /\ f.ret.str \in {Join(o, ",") : o \in SMembers(store, Key(f.s))}
                 /\ store[Key(f.s)] = f.snap[Key(f.s)]

(* C15: Has, Slice and Len issue exactly one command, which leaves the      *)
(* store unchanged; when it fails they return false, the empty sequence     *)
(* and 0; they return with the lock unlocked.                               *)
C15_FailClosedReads ==
  [][\A t \in Threads :
       /\ (Commands(t) /\ Top(t).fn \in {"Has", "Slice", "Len"})
            => LET g == stack'[t][Len(stack[t])] IN
               /\ store' = store
               /\ g.pc = "unlock" /\ g.cmds = 1
               /\ g.err => (~g.ret.b /\ g.ret.l = <<>> /\ g.ret.n = 0)
       /\ (Returns(t) /\ Top(t).fn \in {"Has", "Slice", "Len"})
            => (Top(t).cmds = 1 /\ store' = store /\ ~mu'[Top(t).s])]_vars

\* Has is about to return false for a member of the key, its command having failed
C15_Witness ==
  \E t \in Threads :
    /\ Returning(t, "Has") /\ Top(t).err /\ ~Top(t).ret.b /\ Top(t).cmds = 1
    /\ ToLower(Top(t).element) \in store[Key(Top(t).s)]

(* C16: Insert, Remove and Close issue their command exactly once, also     *)
(* when it fails; a failed command leaves the store as it was; they return  *)
(* with the lock unlocked.                                                  *)
C16_SwallowedWrites ==
  [][\A t \in Threads :
       /\ (Commands(t) /\ Top(t).fn \in {"Insert", "Remove", "Close"})
            => LET g == stack'[t][Len(stack[t])] IN
               /\ g.pc = "unlock" /\ g.cmds = 1
               /\ g.err => store' = store
       /\ (Returns(t) /\ Top(t).fn \in {"Insert", "Remove", "Close"})
            => (Top(t).cmds = 1 /\ store' = store /\ ~mu'[Top(t).s])]_vars

\* Insert is about to return, its one command having failed and added nothing
C16_Witness ==
  \E t \in Threads :
    /\ Returning(t, "Insert") /\ Top(t).err /\ Top(t).cmds = 1
    /\ ToLower(Top(t).element) \notin store[Key(Top(t).s)]

(* C17: Close issues one command, after which the key has no members: Len   *)
(* is 0 and Has is false; a Close is never stuck, a second one included;    *)
(* an Insert(e) after Close leaves exactly the lower-cased e under the key. *)
C17_CloseThenUse ==
  \A t \in Threads :
    (stack[t] # <<>>) =>
      LET f == Top(t)
          k == Key(f.s)
      IN /\ (f.fn = "Close" /\ Holding(f)) => ENABLED Progress(t)
         /\ (Returning(t, "Close") /\ ~f.err) => (store[k] = {} /\ f.cmds = 1)
         /\ (Returning(t, "Len") /\ phase[k] = "closed") => f.ret.n = 0
         /\ (Returning(t, "Has") /\ phase[k] = "closed") => ~f.ret.b
         /\ (Returning(t, "Insert") /\ ~f.err /\ phase[k] = "one")
              => store[k] = {ToLower(f.element)}

\* an Insert of an upper-case spelling is about to return, the first since a Close
C17_Witness ==
  \E t \in Threads :
    /\ Returning(t, "Insert") /\ ~Top(t).err /\ phase[Key(Top(t).s)] = "one"
    /\ Top(t).element # ToLower(Top(t).element)
    /\ inserted[Key(Top(t).s)] = store[Key(Top(t).s)]

(* C18: Union, Subtract and Intersect never take the lock of the other      *)
(* handle: no call they make is past Lock on other.                         *)
C18_OtherNeverLocked ==
  \A t \in Threads : \A i, j \in DOMAIN stack[t] :
    (i < j /\ stack[t][i].fn \in OtherFns /\ stack[t][j].s = stack[t][i].other)
      => ~Holding(stack[t][j])

(* C19: every member stored under a key is in lower case, and every value   *)
(* sent by Has, Insert and Remove is the lower-case form of the argument.   *)
C19_CanonicalForm ==
  /\ \A k \in Keys : \A m \in store[k] : IsLower(m)
  /\ \A t \in Threads : \A i \in DOMAIN stack[t] :
       (stack[t][i].fn \in ElementFns /\ stack[t][i].pc = "unlock")
         => LowerFormOf(stack[t][i].sent, stack[t][i].element)

\* Remove has sent the lower-case form of an upper-case argument, the key holding a member
C19_Witness ==
  \E t \in Threads :
    /\ Returning(t, "Remove") /\ Top(t).sent # Top(t).element
    /\ store[Key(Top(t).s)] # {}

(* C20: no lock-order deadlock across handles: never does each of two       *)
(* goroutines hold its own handle's lock while waiting for the other's.     *)
C20_NoLockOrderDeadlock ==
  \A t, u \in Threads :
    ~ /\ t # u /\ stack[t] # <<>> /\ stack[u] # <<>>
      /\ Top(t).pc = "lock" /\ Top(u).pc = "lock"
      /\ Top(t).s # Top(u).s
      /\ \E i \in DOMAIN stack[u] : stack[u][i].s = Top(t).s /\ Holding(stack[u][i])
      /\ \E i \in DOMAIN stack[t] : stack[t][i].s = Top(u).s /\ Holding(stack[t][i])

====
